---- MODULE Spec2Model ----
(***************************************************************************)
(* Model of the Graph class of watts_strogatz_model.py: construction of    *)
(* the adjacency index and of the catalogue of all possible edges, the     *)
(* ring lattice factory make_graph, the rewiring generator                 *)
(* randomize_graph, the breadth-first shortest_path, the sampled average   *)
(* shortest path and the clustering coefficient.                           *)
(*                                                                         *)
(* Vertices are 0..num_vertices-1 as in the source.  An edge is a tuple    *)
(* <<a, b>>; e[1] and e[2] are the source's e[0] and e[1].  Python lists   *)
(* are sequences (1-based here, 0-based loop counters are kept and         *)
(* shifted at the point of indexing).  neighbors is a function from the    *)
(* vertex to its list.  Python floats are modelled by exact rationals      *)
(* <<numerator, denominator>> in lowest terms.                             *)
(***************************************************************************)
EXTENDS Integers, Sequences, FiniteSets, TLC

\* ------------------------------------------------------------------ bounds
\* largest vertex count of the lattices and complete graphs that are rewired
MaxN == 3
\* a caller-supplied Graph(n, es) has n + Len(es) <= MaxSize
MaxSize == 5
\* largest vertex count of the lattices and complete graphs that are only analysed
MaxRing == 6

\* range(20) in shortest_path_len_random
NumSamples == 20

\* ----------------------------------------------------------------- helpers
Range(s) == {s[x] : x \in 1..Len(s)}

\* Python's `x in list`
InList(x, s) == \E y \in 1..Len(s) : s[y] = x

RECURSIVE GCD(_, _)
GCD(a, b) == IF b = 0 THEN a ELSE GCD(b, a % b)

\* a non-negative fraction in lowest terms
Rat(num, den) == LET d == GCD(num, den) IN <<num \div d, den \div d>>

\* ------------------------------------------------------- Graph.__init__
\* lines 21-22 without line 22
AddEdgeOneWay(nb, e) == [nb EXCEPT ![e[1]] = Append(@, e[2])]

\* line 22 with the vertex appended to its own list
AddEdgeSelf(nb, e) ==
    LET nb1 == [nb EXCEPT ![e[1]] = Append(@, e[2])]
    IN  [nb1 EXCEPT ![e[2]] = Append(@, e[2])]

\* lines 21-22: both endpoints learn of each other, in this order
AddEdge(nb, e) ==
    LET nb1 == [nb EXCEPT ![e[1]] = Append(@, e[2])]
    IN  [nb1 EXCEPT ![e[2]] = Append(@, e[1])]

RECURSIVE NeighborsUpTo(_, _, _)
NeighborsUpTo(n, es, m) ==
    IF m = 0 THEN [x \in 0..(n - 1) |-> <<>>]
    ELSE AddEdge(NeighborsUpTo(n, es, m - 1), es[m])

\* lines 19-22
Neighbors(n, es) == NeighborsUpTo(n, es, Len(es))

\* line 26-27 for one a: (0,a), (1,a), ..., (a-1,a)
InnerEdges(a) == [b \in 1..a |-> <<b - 1, a>>]

RECURSIVE EdgesBelow(_)
EdgesBelow(m) == IF m = 0 THEN <<>> ELSE EdgesBelow(m - 1) \o InnerEdges(m - 1)

\* lines 24-27
AllPossibleEdges(n) == EdgesBelow(n)

\* lines 13-27: the constructed object
Graph(n, es) ==
    [num_vertices |-> n,
     edges |-> es,
     neighbors |-> Neighbors(n, es),
     all_possible_edges |-> AllPossibleEdges(n)]

\* ------------------------------------------------------ Graph.make_graph
\* lines 120-124 for one i
RowEdgesShortWrap(n, s, i) ==
    [t \in 1..s |-> LET j == i - s + (t - 1)
                    IN  IF j < 0 THEN <<i, j + n - 1>> ELSE <<i, j>>]

RowEdges(n, s, i) ==
    [t \in 1..s |-> LET j == i - s + (t - 1)
                    IN  IF j < 0 THEN <<i, j + n>> ELSE <<i, j>>]

RECURSIVE RingEdges(_, _, _)
RingEdges(n, s, m) ==
    IF m = 0 THEN <<>> ELSE RingEdges(n, s, m - 1) \o RowEdges(n, s, m - 1)

\* lines 117-126
make_graph(n, s) == Graph(n, RingEdges(n, s, n))

\* -------------------------------------------------- Graph.randomize_graph
\* p and rand.random() are counted in halves: p is 0, 1/2 or 1, and random(),
\* which lies in [0, 1), is 0 or 1/2
Probabilities == {0, 1, 2}
RandomValues == {0, 1}

\* line 105: rand.random() < p
SelectedInclusive(r, pp) == r <= pp

Selected(r, pp) == r < pp

\* line 108: new_edge in new_edges (tuple equality)
Rejected(e, es) == InList(e, es)

\* line 110: new_edges[i] = new_edge
AssignEdgeAppend(es, k, e) == Append(es, e)

AssignEdge(es, k, e) == [es EXCEPT ![k + 1] = e]

\* ------------------------------------------------- Graph.shortest_path
\* lines 56-57: v[1] + 1
PathLengthSame(d) == d

PathLength(d) == d + 1

\* lines 54-57 for one neighbor of the dequeued (vertex, d)
Visit(st, neighbor, d) ==
    IF neighbor \in DOMAIN st.shortest_lengths
    THEN st
    ELSE [queue |-> Append(st.queue, <<neighbor, PathLength(d)>>),
          shortest_lengths |-> (neighbor :> PathLength(d)) @@ st.shortest_lengths]

RECURSIVE VisitFrom(_, _, _, _)
VisitFrom(st, nbs, d, k) ==
    IF k > Len(nbs) THEN st ELSE VisitFrom(Visit(st, nbs[k], d), nbs, d, k + 1)

RECURSIVE BfsRun(_, _)
BfsRun(nb, st) ==
    IF st.queue = <<>> THEN st.shortest_lengths
    ELSE LET head == Head(st.queue)
         IN  BfsRun(nb, VisitFrom([st EXCEPT !.queue = Tail(@)], nb[head[1]], head[2], 1))

\* lines 42-59
shortest_path(nb, src) ==
    BfsRun(nb, [queue |-> <<<<src, 0>>>>, shortest_lengths |-> (src :> 0)])

\* ------------------------------------- Graph.shortest_path_len_random
\* line 94
RunningMean(a, c, d) == Rat(a[1] * c + d * a[2], a[2] * (c + 1))

\* lines 91-95: v2 runs over range(num_vertices) starting at v2
RECURSIVE Accumulate(_, _, _, _, _)
Accumulate(n, sp, a, c, v2) ==
    IF v2 >= n THEN <<a, c>>
    ELSE IF v2 \in DOMAIN sp
         THEN Accumulate(n, sp, RunningMean(a, c, sp[v2]), c + 1, v2 + 1)
         ELSE Accumulate(n, sp, a, c, v2 + 1)

\* ------------------------------------- Graph.clustering_coefficient
\* line 35, with the second operand taken from the wrong list position
ClosedWrongIndex(nb, ii, j, k) == InList(nb[ii][k + 1], nb[nb[ii][k + 1]])

\* line 35
Closed(nb, ii, j, k) == InList(nb[ii][k + 1], nb[nb[ii][j + 1]])

\* line 36
ClosedUpdate(ii, a) == Rat(ii * a[1] + a[2], a[2] * (ii + 1))

\* line 38
OpenUpdate(ii, a) == Rat(a[1] * ii, a[2] * (ii + 1))

\* ================================================================= state
VARIABLES
    num_vertices, edges, neighbors, all_possible_edges, \* the fields of self
    origin,            \* "none", "make_graph" or "Graph": how self was built
    separation,        \* the separation handed to make_graph (0 otherwise)
    pc,                \* position of the running method
    p, i, new_edges, new_edge,   \* locals of randomize_graph
    new_g,             \* the Graph returned by randomize_graph (line 145)
    v1, queue, shortest_lengths, v, nidx,  \* locals of shortest_path; nidx counts the for loop
    avg, count, sample_i,        \* locals of shortest_path_len_random (sample_i is its i)
    avg_cluster, ci, cj, ck      \* locals of clustering_coefficient (ci, cj, ck are its i, j, k)

self_vars == <<num_vertices, edges, neighbors, all_possible_edges>>
made_vars == <<origin, separation>>
rand_vars == <<p, i, new_edges, new_edge, new_g>>
path_vars == <<v1, queue, shortest_lengths, v, nidx>>
samp_vars == <<avg, count, sample_i>>
clus_vars == <<avg_cluster, ci, cj, ck>>
stat_vars == <<samp_vars, clus_vars>>
vars == <<self_vars, made_vars, rand_vars, path_vars, stat_vars, pc>>

NoGraph == Graph(0, <<>>)
NoMap == <<>>

Init ==
    /\ num_vertices = 0 /\ edges = <<>> /\ neighbors = <<>> /\ all_possible_edges = <<>>
    /\ origin = "none" /\ separation = 0
    /\ pc = "start"
    /\ p = 0 /\ i = 0 /\ new_edges = <<>> /\ new_edge = <<>> /\ new_g = NoGraph
    /\ v1 = 0 /\ queue = <<>> /\ shortest_lengths = NoMap /\ v = <<>> /\ nidx = 0
    /\ avg = <<0, 1>> /\ count = 0 /\ sample_i = 0
    /\ avg_cluster = <<0, 1>> /\ ci = 0 /\ cj = 0 /\ ck = 0

\* self becomes the graph g
Bind(g) ==
    /\ num_vertices' = g.num_vertices
    /\ edges' = g.edges
    /\ neighbors' = g.neighbors
    /\ all_possible_edges' = g.all_possible_edges

\* ------------------------------------------------------------ construction
\* every pair of in-range vertices, canonical or not (the constructor validates nothing)
Pairs(n) == (0..(n - 1)) \X (0..(n - 1))
EdgeSeqs(n) == UNION {[1..m -> Pairs(n)] : m \in 0..(MaxSize - n)}

\* the sequences of ascending pairs, which is what the class asks of its caller (lines 9-11)
AscendingSeqs(n) == UNION {[1..m -> Range(AllPossibleEdges(n))] : m \in 0..(MaxSize - n)}

\* Graph.make_graph(n, s), lines 117-126
MakeGraph(n, s) ==
    /\ pc = "start"
    /\ Bind(make_graph(n, s))
    /\ origin' = "make_graph" /\ separation' = s
    /\ pc' = "idle"
    /\ UNCHANGED <<rand_vars, path_vars, stat_vars>>

\* Graph(n, es), lines 13-27
Construct(n, es) ==
    /\ pc = "start"
    /\ Bind(Graph(n, es))
    /\ origin' = "Graph" /\ separation' = 0
    /\ pc' = "idle"
    /\ UNCHANGED <<rand_vars, path_vars, stat_vars>>

\* --------------------------------------------------------- randomize_graph
\* line 103
RandomizeCall(pp) ==
    /\ pc = "idle"
    /\ p' = pp /\ new_edges' = edges /\ i' = 0
    /\ pc' = "rand_for"
    /\ UNCHANGED <<self_vars, made_vars, new_edge, new_g, path_vars, stat_vars>>

\* lines 104-105, the edge is kept
RandKeep ==
    /\ pc = "rand_for" /\ i < Len(edges)
    /\ \E r \in RandomValues : ~Selected(r, p)
    /\ i' = i + 1
    /\ UNCHANGED <<self_vars, made_vars, p, new_edges, new_edge, new_g,
                   path_vars, stat_vars, pc>>

\* lines 105-106, the edge is selected and the first candidate drawn
RandDraw ==
    /\ pc = "rand_for" /\ i < Len(edges)
    /\ \E r \in RandomValues : Selected(r, p)
    /\ Len(all_possible_edges) > 0
    /\ \E x \in 1..Len(all_possible_edges) : new_edge' = all_possible_edges[x]
    /\ pc' = "rand_while"
    /\ UNCHANGED <<self_vars, made_vars, p, i, new_edges, new_g,
                   path_vars, stat_vars>>

\* line 106 with an empty catalogue: randint(0, -1) raises ValueError
RandRaise ==
    /\ pc = "rand_for" /\ i < Len(edges)
    /\ \E r \in RandomValues : Selected(r, p)
    /\ Len(all_possible_edges) = 0
    /\ pc' = "rand_raised"
    /\ UNCHANGED <<self_vars, made_vars, rand_vars, path_vars, stat_vars>>

\* lines 108-109, candidate x replaces a rejected one
Redraw(x) ==
    /\ pc = "rand_while" /\ Rejected(new_edge, new_edges)
    /\ new_edge' = all_possible_edges[x]
    /\ UNCHANGED <<self_vars, made_vars, p, i, new_edges, new_g,
                   path_vars, stat_vars, pc>>

RandRedraw == \E x \in 1..Len(all_possible_edges) : Redraw(x)

\* a redraw that lands on an edge the new sequence does not hold
RandRedrawFresh ==
    \E x \in 1..Len(all_possible_edges) :
        /\ ~Rejected(all_possible_edges[x], new_edges)
        /\ Redraw(x)

\* lines 108 and 110, the loop is left and the edge stored
RandAssign ==
    /\ pc = "rand_while" /\ ~Rejected(new_edge, new_edges)
    /\ new_edges' = AssignEdge(new_edges, i, new_edge)
    /\ i' = i + 1
    /\ pc' = "rand_for"
    /\ UNCHANGED <<self_vars, made_vars, p, new_edge, new_g, path_vars, stat_vars>>

\* line 111
RandReturn ==
    /\ pc = "rand_for" /\ i >= Len(edges)
    /\ new_g' = Graph(num_vertices, new_edges)
    /\ pc' = "rand_returned"
    /\ UNCHANGED <<self_vars, made_vars, p, i, new_edges, new_edge,
                   path_vars, stat_vars>>

\* lines 141-145: the returned graph is read and dropped, and the same self is
\* rewired again; the locals of the finished call are gone
RandDiscard ==
    /\ pc = "rand_returned"
    /\ p' = 0 /\ i' = 0 /\ new_edges' = <<>> /\ new_edge' = <<>> /\ new_g' = NoGraph
    /\ pc' = "idle"
    /\ UNCHANGED <<self_vars, made_vars, path_vars, stat_vars>>

Next ==
    \/ \E n \in 2..MaxN, s \in 1..MaxN : s < n /\ MakeGraph(n, s)
    \/ \E n \in 1..MaxSize : \E es \in EdgeSeqs(n) : Construct(n, es)
    \/ \E n \in 1..MaxN : Construct(n, AllPossibleEdges(n))
    \/ \E pp \in Probabilities : RandomizeCall(pp)
    \/ RandKeep
    \/ RandDraw
    \/ RandRaise
    \/ RandRedraw
    \/ RandAssign
    \/ RandReturn
    \/ RandDiscard

Spec == Init /\ [][Next]_vars

\* The interpreter runs the method to its end, and a fair random source does not
\* withhold for ever a candidate that it can draw.
FairSpec ==
    /\ Spec
    /\ WF_vars(RandKeep \/ RandDraw \/ RandRaise \/ RandAssign \/ RandReturn)
    /\ WF_vars(RandRedrawFresh)

\* ------------------------------------------------------------ shortest_path
\* lines 43-49
ShortestPathCall(src) ==
    /\ pc = "idle"
    /\ v1' = src
    /\ queue' = <<<<src, 0>>>>
    /\ shortest_lengths' = (src :> 0)
    /\ pc' = "bfs_while"
    /\ UNCHANGED <<self_vars, made_vars, rand_vars, v, nidx, stat_vars>>

\* lines 50-51
BfsGet ==
    /\ pc = "bfs_while" /\ queue # <<>>
    /\ v' = Head(queue)
    /\ queue' = Tail(queue)
    /\ nidx' = 0
    /\ pc' = "bfs_for"
    /\ UNCHANGED <<self_vars, made_vars, rand_vars, v1, shortest_lengths, stat_vars>>

\* lines 52-57 for the neighbor at position nidx
BfsVisit ==
    /\ pc = "bfs_for" /\ nidx < Len(neighbors[v[1]])
    /\ LET st == Visit([queue |-> queue, shortest_lengths |-> shortest_lengths],
                       neighbors[v[1]][nidx + 1], v[2])
       IN  /\ queue' = st.queue
           /\ shortest_lengths' = st.shortest_lengths
    /\ nidx' = nidx + 1
    /\ UNCHANGED <<self_vars, made_vars, rand_vars, v1, v, stat_vars, pc>>

\* line 52, the neighbor list is exhausted
BfsForEnd ==
    /\ pc = "bfs_for" /\ nidx >= Len(neighbors[v[1]])
    /\ pc' = "bfs_while"
    /\ UNCHANGED <<self_vars, made_vars, rand_vars, path_vars, stat_vars>>

\* lines 50 and 59
BfsReturn ==
    /\ pc = "bfs_while" /\ queue = <<>>
    /\ pc' = "bfs_returned"
    /\ UNCHANGED <<self_vars, made_vars, rand_vars, path_vars, stat_vars>>

PathNext ==
    \/ \E n \in 2..MaxRing, s \in 1..MaxRing : s < n /\ MakeGraph(n, s)
    \/ \E n \in 1..MaxSize : \E es \in EdgeSeqs(n) : Construct(n, es)
    \/ \E n \in 1..MaxRing : Construct(n, AllPossibleEdges(n))
    \/ \E src \in 0..(num_vertices - 1) : ShortestPathCall(src)
    \/ BfsGet
    \/ BfsVisit
    \/ BfsForEnd
    \/ BfsReturn

PathSpec == Init /\ [][PathNext]_vars

\* the interpreter runs the method to its end
FairPathSpec == PathSpec /\ WF_vars(BfsGet \/ BfsVisit \/ BfsForEnd \/ BfsReturn)

\* ------------------------------------------------- clustering_coefficient
\* line 31
ClusteringCall ==
    /\ pc = "idle"
    /\ avg_cluster' = <<0, 1>> /\ ci' = 0 /\ cj' = 0 /\ ck' = 0
    /\ pc' = "cc_loop"
    /\ UNCHANGED <<self_vars, made_vars, rand_vars, path_vars, samp_vars>>

\* lines 32-33, the neighbor list of vertex ci is exhausted
ClusterNextVertex ==
    /\ pc = "cc_loop" /\ ci < num_vertices /\ cj >= Len(neighbors[ci])
    /\ ci' = ci + 1 /\ cj' = 0 /\ ck' = 0
    /\ UNCHANGED <<self_vars, made_vars, rand_vars, path_vars, samp_vars, avg_cluster, pc>>

\* lines 33-34, every k below cj has been paired with cj
ClusterNextNeighbor ==
    /\ pc = "cc_loop" /\ ci < num_vertices /\ cj < Len(neighbors[ci]) /\ ck >= cj
    /\ cj' = cj + 1 /\ ck' = 0
    /\ UNCHANGED <<self_vars, made_vars, rand_vars, path_vars, samp_vars, avg_cluster, ci, pc>>

\* lines 35-38 for the pair (cj, ck) of neighbors of ci
ClusterPair ==
    /\ pc = "cc_loop" /\ ci < num_vertices /\ cj < Len(neighbors[ci]) /\ ck < cj
    /\ avg_cluster' = IF Closed(neighbors, ci, cj, ck)
                      THEN ClosedUpdate(ci, avg_cluster)
                      ELSE OpenUpdate(ci, avg_cluster)
    /\ ck' = ck + 1
    /\ UNCHANGED <<self_vars, made_vars, rand_vars, path_vars, samp_vars, ci, cj, pc>>

\* line 39
ClusterReturn ==
    /\ pc = "cc_loop" /\ ci >= num_vertices
    /\ pc' = "cc_returned"
    /\ UNCHANGED <<self_vars, made_vars, rand_vars, path_vars, stat_vars>>

\* ---------------------------------------------- shortest_path_len_random
\* lines 86-87
SampleCall ==
    /\ pc = "idle"
    /\ avg' = <<0, 1>> /\ count' = 0 /\ sample_i' = 0
    /\ pc' = "sample_for"
    /\ UNCHANGED <<self_vars, made_vars, rand_vars, path_vars, clus_vars>>

\* lines 88-95, one sampled source
SampleIter(src) ==
    /\ pc = "sample_for" /\ sample_i < NumSamples
    /\ v1' = src
    /\ \E sp \in {shortest_path(neighbors, src)} :
         \E acc \in {Accumulate(num_vertices, sp, avg, count, 0)} :
            avg' = acc[1] /\ count' = acc[2]
    /\ sample_i' = sample_i + 1
    /\ UNCHANGED <<self_vars, made_vars, rand_vars, queue, shortest_lengths, v, nidx, clus_vars, pc>>

\* line 96
SampleReturn ==
    /\ pc = "sample_for" /\ sample_i >= NumSamples
    /\ pc' = "sample_returned"
    /\ UNCHANGED <<self_vars, made_vars, rand_vars, path_vars, stat_vars>>

\* make_graph "assumes separation << num_vertices" (line 115); the lattices analysed
\* here have 2 * separation < num_vertices, which also keeps the exact fractions of
\* the clustering recurrence within the range of the integers
StatNext ==
    \/ \E n \in 2..MaxRing, s \in 1..MaxRing : 2 * s < n /\ MakeGraph(n, s)
    \/ \E n \in 1..MaxSize : \E es \in AscendingSeqs(n) : Construct(n, es)
    \/ \E n \in 1..MaxRing : Construct(n, AllPossibleEdges(n))
    \/ ClusteringCall
    \/ ClusterNextVertex
    \/ ClusterNextNeighbor
    \/ ClusterPair
    \/ ClusterReturn
    \/ SampleCall
    \/ \E src \in 0..(num_vertices - 1) : SampleIter(src)
    \/ SampleReturn

StatSpec == Init /\ [][StatNext]_vars

\* ============================================================= properties
\* e and f denote the same unordered pair of vertices
SamePair(e, f) == {e[1], e[2]} = {f[1], f[2]}

NoDuplicatePairs(es) ==
    \A x, y \in 1..Len(es) : x # y => ~SamePair(es[x], es[y])

Canonical(n, es) ==
    \A x \in 1..Len(es) : 0 <= es[x][1] /\ es[x][1] < es[x][2] /\ es[x][2] < n

\* nb is the symmetric closure of es over the vertices 0..n-1
SymmetricClosure(n, es, nb) ==
    \A u, w \in 0..(n - 1) :
        /\ InList(u, nb[w]) <=> InList(w, nb[u])
        /\ InList(u, nb[w]) <=> (InList(<<u, w>>, es) \/ InList(<<w, u>>, es))

\* the number of canonical pairs over n vertices
PairCount(n) == (n * (n - 1)) \div 2

Unsaturated == num_vertices >= 2 /\ Len(edges) < PairCount(num_vertices)

Saturated == \A x \in 1..Len(all_possible_edges) : InList(all_possible_edges[x], new_edges)

\* every canonical pair occurs exactly once in es, and nothing else does
IsComplete(n, es) ==
    /\ Len(es) = PairCount(n)
    /\ Canonical(n, es)
    /\ NoDuplicatePairs(es)

\* vertices joined to src by a walk of at most k steps along nb
RECURSIVE Within(_, _, _)
Within(nb, src, k) ==
    IF k = 0 THEN {src}
    ELSE LET prev == Within(nb, src, k - 1)
         IN  prev \cup {w \in DOMAIN nb : \E u \in prev : InList(w, nb[u])}

Reachable(nb, n, src) == Within(nb, src, n)

\* the least number of edges on a path from src to u
Distance(nb, n, src, u) ==
    CHOOSE k \in 0..n : u \in Within(nb, src, k) /\ (k = 0 \/ u \notin Within(nb, src, k - 1))

InBfs == pc \in {"bfs_while", "bfs_for"}

\* C1: a graph returned by randomize_graph on a lattice make_graph(n, s) with n > 2s
\* has no two positions of its edge sequence that denote the same unordered pair.
C1_NoDuplicateIntroduced ==
    (pc = "rand_returned" /\ origin = "make_graph" /\ num_vertices > 2 * separation)
    => NoDuplicatePairs(new_g.edges)

\* C2: every edge of make_graph(n, s), 1 <= s < n, and of every graph that
\* randomize_graph returns for it, is ascending and in range: 0 <= a < b < num_vertices.
C2_EdgesAscending ==
    origin = "make_graph"
    => /\ Canonical(num_vertices, edges)
       /\ pc = "rand_returned" => Canonical(new_g.num_vertices, new_g.edges)

\* C3: neighbors is exactly the symmetric closure of edges, in the constructed graph
\* and in every graph returned by randomize_graph.
C3_NeighborsSymmetricClosure ==
    /\ pc # "start" => SymmetricClosure(num_vertices, edges, neighbors)
    /\ pc = "rand_returned"
       => SymmetricClosure(new_g.num_vertices, new_g.edges, new_g.neighbors)

C3_Witness ==
    /\ pc = "rand_returned" /\ new_g.edges # edges
    /\ \E u, w \in 0..(num_vertices - 1) :
          /\ u # w
          /\ InList(u, new_g.neighbors[w]) /\ ~InList(u, neighbors[w])

\* C4: the distance of the source to itself is 0, and every vertex u found from v1
\* finds v1 at the same distance.
C4_DistancesSymmetric ==
    pc = "bfs_returned"
    => /\ shortest_lengths[v1] = 0
       /\ \A u \in DOMAIN shortest_lengths :
             LET back == shortest_path(neighbors, u)
             IN  v1 \in DOMAIN back /\ back[v1] = shortest_lengths[u]

C4_Witness ==
    /\ pc = "bfs_returned" /\ v1 # 0
    /\ \E u \in DOMAIN shortest_lengths : shortest_lengths[u] >= 2

\* C5: in make_graph(n, s) with s >= 1 and n > 2s every vertex x has exactly 2s
\* neighbors, none repeated: the vertices (x - d) mod n and (x + d) mod n, d = 1..s.
C5_RingNeighbors ==
    (origin = "make_graph" /\ separation >= 1 /\ num_vertices > 2 * separation)
    => \A x \in 0..(num_vertices - 1) :
          /\ Len(neighbors[x]) = 2 * separation
          /\ Cardinality(Range(neighbors[x])) = 2 * separation
          /\ Range(neighbors[x]) =
                {(x - d) % num_vertices : d \in 1..separation}
                    \cup {(x + d) % num_vertices : d \in 1..separation}

C5_Witness ==
    origin = "make_graph" /\ separation >= 2 /\ num_vertices > 2 * separation

\* C6: each sampled source adds one observation per reachable vertex other than the
\* source itself: the count grows by (vertices reachable from v1) - 1.
C6_SourceNotObserved ==
    [][(pc = "sample_for" /\ sample_i' = sample_i + 1)
        => count' = count + Cardinality(DOMAIN shortest_path(neighbors, v1')) - 1]_vars

\* C7: randomize_graph(0) selects no edge, returns a graph of the same vertex count
\* with an element-for-element equal edge sequence, and leaves the fields of self alone.
C7_RandomizeZeroCopies ==
    /\ [](p = 0 => pc \notin {"rand_while", "rand_raised"})
    /\ []((pc = "rand_returned" /\ p = 0)
            => new_g.num_vertices = num_vertices /\ new_g.edges = edges)
    /\ [][(pc \in {"idle", "rand_for", "rand_while"} /\ p' = 0) => UNCHANGED self_vars]_vars

C7_Witness == pc = "rand_returned" /\ p = 0 /\ Len(edges) >= 2

\* C8: the clustering coefficient of the complete graph on n >= 3 vertices is exactly 1.
C8_CompleteClustersToOne ==
    (pc = "cc_returned" /\ num_vertices >= 3 /\ IsComplete(num_vertices, edges))
    => avg_cluster = <<1, 1>>

C8_Witness ==
    pc = "cc_returned" /\ num_vertices >= 4 /\ IsComplete(num_vertices, edges)

\* C9: with fewer edges than canonical pairs the rejection loop always has a member
\* of all_possible_edges that new_edges lacks, and the call returns; once new_edges
\* holds every member of all_possible_edges the loop is never left.
C9_RejectionLoop ==
    /\ []((pc = "rand_while" /\ Unsaturated) => ~Saturated)
    /\ ((pc \in {"rand_for", "rand_while"} /\ Unsaturated) ~> pc = "rand_returned")
    /\ [][(pc = "rand_while" /\ Saturated) => pc' = "rand_while"]_vars

C9_Witness ==
    /\ pc = "rand_while" /\ Unsaturated /\ i >= 1
    /\ new_edges # edges
    /\ Rejected(new_edge, new_edges)

\* C10: shortest_path returns; the keys of its mapping are exactly the vertices
\* reachable from the source, each value is the least number of edges to it, and a
\* recorded distance is never overwritten.
C10_ShortestPathCorrect ==
    /\ [](pc = "bfs_returned"
            => /\ DOMAIN shortest_lengths = Reachable(neighbors, num_vertices, v1)
               /\ \A u \in DOMAIN shortest_lengths :
                     shortest_lengths[u] = Distance(neighbors, num_vertices, v1, u))
    /\ (InBfs ~> pc = "bfs_returned")
    /\ [][InBfs => \A u \in DOMAIN shortest_lengths :
                      /\ u \in DOMAIN shortest_lengths'
                      /\ shortest_lengths'[u] = shortest_lengths[u]]_vars

C10_Witness ==
    /\ pc = "bfs_returned"
    /\ \E u \in DOMAIN shortest_lengths : shortest_lengths[u] >= 3

====
